---- MODULE Spec2Model ----
(***************************************************************************)
(* A model of the toybox ECS core: the system registry and its dependency  *)
(* graph (tb_ecs/src/system/registry.rs) and the resource store            *)
(* (tb_ecs/src/world.rs).                                                  *)
(*                                                                         *)
(* tb_core::algorithm::topological_sort (TopologicalGraph, VisitorWithFlag)*)
(* is not part of the sources at hand; the operators that stand for it are *)
(* written from the design document and are marked "tb_core" below.        *)
(***************************************************************************)
EXTENDS Integers, Sequences, FiniteSets, TLC

\* ------------------------------------------------------------------------
\* Bounds and input universes
\* ------------------------------------------------------------------------

\* System type identities (TypeId of the system type).
TypeIds == {"A", "B", "C"}

\* Resource identifiers (ResourceId).
Resources == {"R1", "R2"}

\* At most this many resource declarations in one descriptor (all three lists).
MaxDecl == 2

\* At most this many add_system_infos / systems calls in one behaviour.
MaxCalls == 4

\* ------------------------------------------------------------------------
\* Generic helpers
\* ------------------------------------------------------------------------

\* All enumeration orders of a finite set: what iterating a hash container
\* may produce.
Perms(S) ==
  {f \in [1..Cardinality(S) -> S] :
     \A i, j \in 1..Cardinality(S) : i # j => f[i] # f[j]}

Range(s) == {s[i] : i \in 1..Len(s)}

\* The elements of S in the order in which they occur in the sequence ord.
RECURSIVE InOrder(_, _)
InOrder(ord, S) ==
  IF ord = <<>> THEN <<>>
  ELSE IF Head(ord) \in S THEN <<Head(ord)>> \o InOrder(Tail(ord), S)
       ELSE InOrder(Tail(ord), S)

\* ------------------------------------------------------------------------
\* SystemInfo (registry.rs:159-197)
\* ------------------------------------------------------------------------

\* A descriptor instance.  The three Vec<ResourceId> are kept as sets: the
\* registry only ever iterates them to insert into sets or to add edges.
SystemInfo ==
  {d \in [type_id : TypeIds,
          reads_before_write : SUBSET Resources,
          writes : SUBSET Resources,
          reads_after_write : SUBSET Resources] :
     Cardinality(d.reads_before_write) + Cardinality(d.writes)
       + Cardinality(d.reads_after_write) <= MaxDecl}

\* ------------------------------------------------------------------------
\* tb_core TopologicalGraph (from the design document)
\* ------------------------------------------------------------------------

\* A graph is [items, deps, cycle]: deps holds <<p, s>> for "p runs before s";
\* cycle is the set of systems named by the fatal cycle report, {} if none.
EmptyGraph == [items |-> {}, deps |-> {}, cycle |-> {}]

\* Nodes reachable from the set front along deps (front included).
RECURSIVE ReachFrom(_, _)
ReachFrom(deps, front) ==
  LET more == {e[2] : e \in {d \in deps : d[1] \in front}} IN
  IF more \subseteq front THEN front ELSE ReachFrom(deps, front \cup more)

\* There is a path (possibly empty) from a to b.
Reaches(deps, a, b) == b \in ReachFrom(deps, {a})

\* clear(): no item, no dependency.
graph_clear(g) == EmptyGraph

graph_add_item(g, item) == [g EXCEPT !.items = @ \cup {item}]

\* add_dependency(item, dependency): dependency runs before item.  An edge that
\* closes a cycle is the fatal configuration error; it names the systems on
\* the cycle.
graph_add_dependency(g, item, dependency) ==
  IF g.cycle # {} THEN g
  ELSE IF Reaches(g.deps, item, dependency)
       THEN [g EXCEPT !.cycle =
               {n \in g.items \cup {item, dependency} :
                  Reaches(g.deps, item, n) /\ Reaches(g.deps, n, dependency)}]
       ELSE [g EXCEPT !.items = @ \cup {item, dependency},
                      !.deps = @ \cup {<<dependency, item>>}]

\* add_dependency_if_non_inverse(item, dependency): the edge is added unless
\* the inverse order (item before dependency) is already reachable.
graph_add_dependency_if_non_inverse(g, item, dependency) ==
  IF g.cycle # {} THEN g
  ELSE IF Reaches(g.deps, item, dependency) THEN g
       ELSE [g EXCEPT !.items = @ \cup {item, dependency},
                      !.deps = @ \cup {<<dependency, item>>}]

\* Direct predecessors of n.
Preds(g, n) == {e[1] : e \in {d \in g.deps : d[2] = n}}

\* The wavefronts of the items outside done, in order: a wavefront is the set
\* of items all of whose predecessors lie in earlier wavefronts.
RECURSIVE Waves(_, _)
Waves(g, done) ==
  LET ready == {n \in g.items \ done : Preds(g, n) \subseteq done} IN
  IF ready = {} THEN <<>> ELSE <<ready>> \o Waves(g, done \cup ready)

\* Mutant: the wavefront index is never advanced.
VisitorCandidates_flat(g, yielded) ==
  LET waves == Waves(g, {})
      open == {k \in 1..Len(waves) : waves[k] \ yielded # {}}
  IN IF open = {} THEN {}
     ELSE LET k == CHOOSE i \in open : \A j \in open : i <= j
          IN {[system |-> n, flag |-> 0] : n \in waves[k] \ yielded}

\* visit_with_flag / VisitorWithFlag::next: the items the visitor may yield
\* next, each with its wavefront index, after it has yielded `yielded`.
VisitorCandidates(g, yielded) ==
  LET waves == Waves(g, {})
      open == {k \in 1..Len(waves) : waves[k] \ yielded # {}}
  IN IF open = {} THEN {}
     ELSE LET k == CHOOSE i \in open : \A j \in open : i <= j
          IN {[system |-> n, flag |-> k - 1] : n \in waves[k] \ yielded}

\* ------------------------------------------------------------------------
\* SystemRegistry (registry.rs:13-150)
\* ------------------------------------------------------------------------

\* Mutant: an insert that never replaces.
systems_insert_keep_both(systems, info) == systems \cup {info}

\* HashMap::insert on `systems`, keyed by info.system_type_id().
systems_insert(systems, info) ==
  {s \in systems : s.type_id # info.type_id} \cup {info}

\* add_system_infos, the loop over the iterator (registry.rs:26-28).
RECURSIVE InsertAll(_, _)
InsertAll(systems, infos) ==
  IF infos = <<>> THEN systems
  ELSE InsertAll(systems_insert(systems, Head(infos)), Tail(infos))

\* Every Vec<ResourceId> of a descriptor is iterated in this order.
ResourceOrder == <<"R1", "R2">>

\* refresh, first loop (registry.rs:85-115): resources_info is cleared and
\* every system is entered under each resource it declares, by role.
BuildResourcesInfo(systems) ==
  LET declared ==
        UNION {s.reads_before_write \cup s.writes \cup s.reads_after_write :
                 s \in systems}
  IN [r \in declared |->
        [read_before_write_systems |->
           {s \in systems : r \in s.reads_before_write},
         write_systems |-> {s \in systems : r \in s.writes},
         read_after_write_systems |->
           {s \in systems : r \in s.reads_after_write}]]

\* Mutant: resources_info is not cleared.
resources_info_clear_kept(info) == info

\* resources_info.clear() (registry.rs:86)
resources_info_clear(info) == << >>

\* refresh, first loop (registry.rs:87-115) over the map as it stands:
\* entry().or_insert_with(ResourceInfo::default) keeps an entry that is there
\* and insert adds the system to the set of its role.
AddResourcesInfo(info, systems) ==
  LET new == BuildResourcesInfo(systems)
      none == [read_before_write_systems |-> {}, write_systems |-> {},
               read_after_write_systems |-> {}]
      At(f, r) == IF r \in DOMAIN f THEN f[r] ELSE none
  IN [r \in DOMAIN info \cup DOMAIN new |->
        [read_before_write_systems |->
           At(info, r).read_before_write_systems
             \cup At(new, r).read_before_write_systems,
         write_systems |->
           At(info, r).write_systems \cup At(new, r).write_systems,
         read_after_write_systems |->
           At(info, r).read_after_write_systems
             \cup At(new, r).read_after_write_systems]]

\* registry.rs:123-128: the writer depends on every reads-before-write system.
RECURSIVE DependOnEach(_, _, _)
DependOnEach(g, item, dependencies) ==
  IF dependencies = <<>> THEN g
  ELSE DependOnEach(graph_add_dependency(g, item, Head(dependencies)),
                    item, Tail(dependencies))

\* Mutant: the two arguments of add_dependency exchanged.
RECURSIVE EachDependsOn_inverted(_, _, _)
EachDependsOn_inverted(g, items, dependency) ==
  IF items = <<>> THEN g
  ELSE EachDependsOn_inverted(graph_add_dependency(g, dependency, Head(items)),
                              Tail(items), dependency)

\* registry.rs:129-134: every reads-after-write system depends on the writer.
RECURSIVE EachDependsOn(_, _, _)
EachDependsOn(g, items, dependency) ==
  IF items = <<>> THEN g
  ELSE EachDependsOn(graph_add_dependency(g, Head(items), dependency),
                     Tail(items), dependency)

\* Mutant: the reads-after-write loop left out.
RECURSIVE ReaderWriterEdges_no_after(_, _, _, _, _)
ReaderWriterEdges_no_after(g, info, system_info, write_resources, sorder) ==
  IF write_resources = <<>> THEN g
  ELSE ReaderWriterEdges_no_after(
         DependOnEach(g, system_info,
                      InOrder(sorder,
                              info[Head(write_resources)].read_before_write_systems)),
         info, system_info, Tail(write_resources), sorder)

\* registry.rs:121-135: the reader/writer edges of one system, one written
\* resource after the other.  sorder is the iteration order of the HashSets.
RECURSIVE ReaderWriterEdges(_, _, _, _, _)
ReaderWriterEdges(g, info, system_info, write_resources, sorder) ==
  IF write_resources = <<>> THEN g
  ELSE LET wri == info[Head(write_resources)]
           g1 == DependOnEach(g, system_info,
                              InOrder(sorder, wri.read_before_write_systems))
           g2 == EachDependsOn(g1,
                               InOrder(sorder, wri.read_after_write_systems),
                               system_info)
       IN ReaderWriterEdges(g2, info, system_info, Tail(write_resources), sorder)

\* Mutant: graph.add_item left out.
RECURSIVE ReaderWriterPass_no_item(_, _, _, _)
ReaderWriterPass_no_item(g, info, vorder, sorder) ==
  IF vorder = <<>> THEN g
  ELSE ReaderWriterPass_no_item(
         ReaderWriterEdges(g, info, Head(vorder),
                           InOrder(ResourceOrder, Head(vorder).writes), sorder),
         info, Tail(vorder), sorder)

\* registry.rs:117-136: the graph is cleared, then every system is added as
\* an item together with its reader/writer edges.  vorder is the iteration
\* order of systems.values().
RECURSIVE ReaderWriterPass(_, _, _, _)
ReaderWriterPass(g, info, vorder, sorder) ==
  IF vorder = <<>> THEN g
  ELSE LET system_info == Head(vorder)
           g1 == IF g.cycle # {} THEN g ELSE graph_add_item(g, system_info)
           g2 == ReaderWriterEdges(g1, info, system_info,
                                   InOrder(ResourceOrder, system_info.writes),
                                   sorder)
       IN ReaderWriterPass(g2, info, Tail(vorder), sorder)

\* Mutant: add_dependency in place of add_dependency_if_non_inverse.
RECURSIVE EachDependsOnIfNonInverse_unchecked(_, _, _)
EachDependsOnIfNonInverse_unchecked(g, items, dependency) ==
  IF items = <<>> THEN g
  ELSE EachDependsOnIfNonInverse_unchecked(
         graph_add_dependency(g, Head(items), dependency),
         Tail(items), dependency)

\* registry.rs:141-146: every writer of the resource, the system itself
\* included, is made to depend on system_info unless that inverts an order.
RECURSIVE EachDependsOnIfNonInverse(_, _, _)
EachDependsOnIfNonInverse(g, items, dependency) ==
  IF items = <<>> THEN g
  ELSE EachDependsOnIfNonInverse(
         graph_add_dependency_if_non_inverse(g, Head(items), dependency),
         Tail(items), dependency)

\* registry.rs:139-147
RECURSIVE WriterWriterEdges(_, _, _, _, _)
WriterWriterEdges(g, info, system_info, write_resources, sorder) ==
  IF write_resources = <<>> THEN g
  ELSE WriterWriterEdges(
         EachDependsOnIfNonInverse(
           g, InOrder(sorder, info[Head(write_resources)].write_systems),
           system_info),
         info, system_info, Tail(write_resources), sorder)

\* Mutant: no writer/writer pass.
WriterWriterPass_skipped(g, info, vorder, sorder) == g

\* registry.rs:138-148: the writer/writer pass.
RECURSIVE WriterWriterPass(_, _, _, _)
WriterWriterPass(g, info, vorder, sorder) ==
  IF vorder = <<>> THEN g
  ELSE WriterWriterPass(
         WriterWriterEdges(g, info, Head(vorder),
                           InOrder(ResourceOrder, Head(vorder).writes), sorder),
         info, Tail(vorder), sorder)

\* registry.rs:138-146: the <<item, dependency>> pairs the writer/writer pass
\* hands to add_dependency_if_non_inverse: for every system and every
\* resource it writes, every entry of that resource's write_systems.
WriterWriterRequests(info, systems) ==
  UNION {UNION {{<<write_system, system_info>> :
                   write_system \in info[write_resource].write_systems} :
                  write_resource \in system_info.writes} :
           system_info \in systems}

\* refresh (registry.rs:78-149) on a dirty registry that has built nothing
\* yet: the rebuilt resources_info and graph.  A cycle report in the graph is
\* the panic that ends the rebuild.
Refresh(systems, vorder, sorder) ==
  LET info == BuildResourcesInfo(systems)
      g1 == ReaderWriterPass(EmptyGraph, info, vorder, sorder)
      g2 == WriterWriterPass(g1, info, vorder, sorder)
  IN [resources_info |-> info, graph |-> g2]

\* refresh (registry.rs:85-148) on a dirty registry holding the cache `info`
\* and the graph `graph` of an earlier rebuild: both are cleared and filled.
refresh(info, graph, systems, vorder, sorder) ==
  LET info1 == AddResourcesInfo(resources_info_clear(info), systems)
      g1 == ReaderWriterPass(graph_clear(graph), info1, vorder, sorder)
      g2 == WriterWriterPass(g1, info1, vorder, sorder)
  IN [resources_info |-> info1, graph |-> g2]

\* ------------------------------------------------------------------------
\* State
\* ------------------------------------------------------------------------

VARIABLES
  systems,                  \* SystemRegistry.systems: one entry per type id
  resources_info,           \* SystemRegistry.resources_info
  system_topological_graph, \* SystemRegistry.system_topological_graph
  systems_changed,          \* SystemRegistry.systems_changed (the dirty flag)
  poisoned,                 \* the registry RwLock is poisoned by a panic
  guard,                    \* the caller holds the read guard of systems()
  visited,                  \* what the visitor of that call has yielded so far
  last_call,                \* the last registry call and how it ended
  calls,                    \* number of registry calls made
  latest,                   \* history: last descriptor registered per type id
  cleared                   \* history: the cache and graph the last rebuild cleared

registry_vars ==
  <<systems, resources_info, system_topological_graph, systems_changed,
    poisoned, guard, visited, last_call, calls, latest, cleared>>

VARIABLES
  resources,                \* World.resources: the entries of the HashMap
  handles,                  \* the references callers still hold
  world_ret,                \* the last World call and what it returned
  events_pushed,            \* history: number of events insert has pushed
  written                   \* history: the last write through a reference

world_vars == <<resources, handles, world_ret, events_pushed, written>>

VARIABLES
  pc,                       \* where each thread is in its registry call
  pending,                  \* add_system_infos: what is left of the iterator
  orders,                   \* refresh: the iteration orders of this rebuild
  rw_readers,               \* the threads holding a read guard of the RwLock
  rw_writer,                \* the thread holding the write guard, 0 if none
  built_from                \* history: the systems the last rebuild started from

thread_vars == <<pc, pending, orders, rw_readers, rw_writer, built_from>>

VARIABLES
  bitsets,                  \* the presence bitset of each join source
  joined,                   \* the joins the caller builds, one after the other
  iters,                    \* the JoinIterator of each: mask_iter, components
  accessed,                 \* history: the (source, id) pairs get was called on
  join_ub                   \* history: get was called without a component

join_vars == <<bitsets, joined, iters, accessed, join_ub>>

VARIABLES
  id_to_assets,             \* AssetLoader.id_to_assets
  path_to_ids,              \* AssetLoader.path_to_ids
  next_id,                  \* AssetLoader.next_id
  loading_pool,             \* the load jobs handed to the pool, not yet run
  completed_assets,         \* the channel from the workers to update
  asset_pc,                 \* where the thread owning the loader is
  asset_handles,            \* the handles load has returned
  asset_ret,                \* the last AssetLoader call and what it returned
  scheduled,                \* history: load jobs scheduled per path
  received,                 \* history: completions update took per id
  logged                    \* history: the ids whose error update printed

asset_vars ==
  <<id_to_assets, path_to_ids, next_id, loading_pool, completed_assets,
    asset_pc, asset_handles, asset_ret, scheduled, received, logged>>

VARIABLES
  prefab,                   \* the Prefab being attached
  link,                     \* PrefabLink.local_entity_to_world_map
  entities,                 \* the world's Entities resource
  components_in_world,      \* the components attach has inserted
  prefab_links,             \* the world's PrefabLink components
  attach_pc,                \* which storage Prefab::attach comes to next
  link_log                  \* history: the build_link calls, in order

prefab_vars ==
  <<prefab, link, entities, components_in_world, prefab_links, attach_pc,
    link_log>>

vars ==
  <<registry_vars, world_vars, thread_vars, join_vars, asset_vars,
    prefab_vars>>

\* The resource-info cache and the graph of the registry.
Cache(info, graph) == [resources_info |-> info, graph |-> graph]

NoCall == [op |-> "none", rebuilt |-> FALSE, result |-> "none", report |-> {}]

Call(op, rebuilt, result, report) ==
  [op |-> op, rebuilt |-> rebuilt, result |-> result, report |-> report]

\* The descriptors a caller passes to add_system_infos in the registry
\* specification (and that static registration may have collected).
Info(t, rbw, w, raw) ==
  [type_id |-> t, reads_before_write |-> rbw, writes |-> w,
   reads_after_write |-> raw]

Catalogue ==
  {Info("A", {}, {"R1"}, {}), Info("A", {}, {"R1"}, {"R2"}), Info("A", {}, {}, {}),
   Info("B", {"R1"}, {}, {}), Info("B", {}, {"R2"}, {"R1"}), Info("B", {}, {"R1"}, {}),
   Info("C", {}, {}, {"R1"}), Info("C", {}, {"R1"}, {}), Info("C", {"R2"}, {}, {})}

\* At most this many descriptors in one add_system_infos call.
MaxBatch == 2

Batches == UNION {[1..n -> Catalogue] : n \in 0..MaxBatch}

RECURSIVE RecordLatest(_, _)
RecordLatest(l, infos) ==
  IF infos = <<>> THEN l
  ELSE RecordLatest([l EXCEPT ![Head(infos).type_id] = Head(infos)], Tail(infos))

NoInfo == [type_id |-> "none"]

\* get_instance (registry.rs:50-69): the registry starts dirty, with the
\* statically collected descriptors already inserted.
RegistryInit(inventory) ==
  /\ systems = InsertAll({}, inventory)
  /\ resources_info = << >>
  /\ system_topological_graph = EmptyGraph
  /\ systems_changed = TRUE
  /\ poisoned = FALSE
  /\ guard = FALSE
  /\ visited = << >>
  /\ last_call = NoCall
  /\ calls = 0
  /\ latest = RecordLatest([t \in TypeIds |-> NoInfo], inventory)
  /\ cleared = Cache(<< >>, EmptyGraph)

\* ------------------------------------------------------------------------
\* Registry operations, one caller
\* ------------------------------------------------------------------------

\* add_system_infos (registry.rs:22-29).  write() blocks while the caller
\* still holds a read guard.
AddSystemInfos(infos, budget) ==
  /\ UNCHANGED <<world_vars, join_vars, asset_vars, prefab_vars, thread_vars>>
  /\ ~poisoned /\ ~guard /\ calls < budget
  /\ systems_changed' = TRUE
  /\ systems' = InsertAll(systems, infos)
  /\ latest' = RecordLatest(latest, infos)
  /\ last_call' = Call("add_system_infos", FALSE, "ok", {})
  /\ calls' = calls + 1
  /\ UNCHANGED <<resources_info, system_topological_graph, poisoned, guard,
                 visited, cleared>>

\* Mutant: the dirty flag is not cleared by the rebuild.
Systems_keeps_dirty(budget) ==
  /\ UNCHANGED <<world_vars, join_vars, asset_vars, prefab_vars, thread_vars>>
  /\ ~poisoned /\ calls < budget
  /\ IF systems_changed
       THEN \E r \in {refresh(resources_info, system_topological_graph,
                                  systems, vorder, sorder) :
                         vorder \in Perms(systems), sorder \in Perms(systems)} :
                /\ cleared' = Cache(resources_info, system_topological_graph)
                /\ resources_info' = r.resources_info
                /\ system_topological_graph' = r.graph
                /\ systems_changed' = TRUE
                /\ poisoned' = (r.graph.cycle # {})
                /\ guard' = (r.graph.cycle = {})
                /\ last_call' =
                     IF r.graph.cycle = {}
                       THEN Call("systems", TRUE, "ok", {})
                       ELSE Call("systems", TRUE, "panic", r.graph.cycle)
       ELSE /\ UNCHANGED <<resources_info, system_topological_graph,
                           systems_changed, poisoned, cleared>>
            /\ guard' = TRUE
            /\ last_call' = Call("systems", FALSE, "ok", {})
  /\ visited' = << >>
  /\ calls' = calls + 1
  /\ UNCHANGED <<systems, latest>>

\* systems (registry.rs:31-48): a dirty registry is refreshed under the write
\* lock first (refresh, registry.rs:78-83, clears the flag before it
\* rebuilds); the caller then gets a fresh visitor and the read guard.  When
\* the rebuild meets a cycle the panic unwinds through the write guard, which
\* poisons the lock, and nothing is returned.
Systems(budget) ==
  /\ UNCHANGED <<world_vars, join_vars, asset_vars, prefab_vars, thread_vars>>
  /\ ~poisoned /\ calls < budget
  /\ IF systems_changed
       THEN \E r \in {refresh(resources_info, system_topological_graph,
                                  systems, vorder, sorder) :
                         vorder \in Perms(systems), sorder \in Perms(systems)} :
                /\ cleared' = Cache(resources_info, system_topological_graph)
                /\ resources_info' = r.resources_info
                /\ system_topological_graph' = r.graph
                /\ systems_changed' = FALSE
                /\ poisoned' = (r.graph.cycle # {})
                /\ guard' = (r.graph.cycle = {})
                /\ last_call' =
                     IF r.graph.cycle = {}
                       THEN Call("systems", TRUE, "ok", {})
                       ELSE Call("systems", TRUE, "panic", r.graph.cycle)
       ELSE /\ UNCHANGED <<resources_info, system_topological_graph,
                           systems_changed, poisoned, cleared>>
            /\ guard' = TRUE
            /\ last_call' = Call("systems", FALSE, "ok", {})
  /\ visited' = << >>
  /\ calls' = calls + 1
  /\ UNCHANGED <<systems, latest>>

\* read().unwrap() / write().unwrap() on the poisoned lock (registry.rs:71-76).
PoisonedCall ==
  /\ UNCHANGED <<world_vars, join_vars, asset_vars, prefab_vars, thread_vars>>
  /\ poisoned
  /\ \E op \in {"systems", "add_system_infos"} :
       last_call' = Call(op, FALSE, "panic", {})
  /\ last_call' # last_call
  /\ UNCHANGED <<systems, resources_info, system_topological_graph,
                 systems_changed, poisoned, guard, visited, calls, latest, cleared>>

\* VisitorWithFlag::next on the visitor returned by systems().
VisitorNext ==
  /\ UNCHANGED <<world_vars, join_vars, asset_vars, prefab_vars, thread_vars>>
  /\ guard
  /\ \E c \in VisitorCandidates(system_topological_graph,
                                {visited[i].system : i \in 1..Len(visited)}) :
       visited' = Append(visited, c)
  /\ UNCHANGED <<systems, resources_info, system_topological_graph,
                 systems_changed, poisoned, guard, last_call, calls, latest, cleared>>

\* The caller drops the visitor and the read guard.
ReleaseGuard ==
  /\ UNCHANGED <<world_vars, join_vars, asset_vars, prefab_vars, thread_vars>>
  /\ guard
  /\ guard' = FALSE
  /\ visited' = << >>
  /\ UNCHANGED <<systems, resources_info, system_topological_graph,
                 systems_changed, poisoned, last_call, calls, latest, cleared>>

\* ------------------------------------------------------------------------
\* World, the resource store (world.rs:21-71)
\* ------------------------------------------------------------------------

\* Resource types: two of the application's and the one World::insert itself
\* inserts, EventChannel<ResourcesChangeEvent>.
ResourceIds == {"X", "Y", "EventChannel"}

ChannelId == "EventChannel"

\* Resource values are 0..MaxValue; an event channel is valued by the number
\* of events it holds.
MaxValue == 1

Values == 0..MaxValue

NoValue == -1

\* At most this many references are held by callers at a time.
MaxHandles == 2

\* How a caller got a reference: try_fetch/fetch give &R ("shared"),
\* try_fetch_mut/fetch_mut give &mut R out of &self ("exclusive"), insert gives
\* &mut R out of &mut self ("insert").
HandleKinds == {"shared", "exclusive", "insert"}

\* An entry of `resources`: the RefCell with its borrow flag (0 unborrowed,
\* n > 0 shared borrows, -1 mutably borrowed) around the boxed value.
Entry(id, value) == [id |-> id, value |-> value, borrow |-> 0]

\* World::contains (world.rs:68-70)
contains(res, id) == \E e \in res : e.id = id

\* HashMap::get on an id that is present.
Get(res, id) == CHOOSE e \in res : e.id = id

ValueOf(res, id) == IF contains(res, id) THEN Get(res, id).value ELSE NoValue

\* EventChannel::push through the reference insert got (world.rs:40).
Push(res) ==
  {IF e.id = ChannelId THEN [e EXCEPT !.value = @ + 1] ELSE e : e \in res}

\* Mutant: HashMap::insert in place of entry().or_insert_with().
RECURSIVE world_insert_overwrite(_, _, _)
world_insert_overwrite(res, id, create) ==
  LET is_new == ~contains(res, id)
      r == {e \in res : e.id # id} \cup {Entry(id, create)}
  IN IF is_new
       THEN LET inner == world_insert_overwrite(r, ChannelId, 0)
            IN [resources |-> Push(inner.resources),
                pushed |-> inner.pushed + 1,
                created |-> inner.created \cup {id}]
       ELSE [resources |-> r, pushed |-> 0, created |-> {id}]

\* Mutant: the event is pushed whether or not the type is new.
RECURSIVE world_insert_always_pushes(_, _, _)
world_insert_always_pushes(res, id, create) ==
  LET is_new == ~contains(res, id)
      r == IF is_new THEN res \cup {Entry(id, create)} ELSE res
  IN IF is_new
       THEN LET inner == world_insert_always_pushes(r, ChannelId, 0)
            IN [resources |-> Push(inner.resources),
                pushed |-> inner.pushed + 1,
                created |-> inner.created \cup {id}]
       ELSE [resources |-> Push(r), pushed |-> 1, created |-> {}]

\* World::insert (world.rs:29-41) up to the final fetch_mut: the store after
\* the call, the number of events pushed and the ids whose factory was called.
\* A new type makes insert insert the event channel (EventChannel::default,
\* no events) by a nested call and push one event.
RECURSIVE world_insert(_, _, _)
world_insert(res, id, create) ==
  LET is_new == ~contains(res, id)
      r == IF is_new THEN res \cup {Entry(id, create)} ELSE res
  IN IF is_new
       THEN LET inner == world_insert(r, ChannelId, 0)
            IN [resources |-> Push(inner.resources),
                pushed |-> inner.pushed + 1,
                created |-> inner.created \cup {id}]
       ELSE [resources |-> r, pushed |-> 0, created |-> {}]

Held(id, kind) == handles[<<id, kind>>]

NoHandles == \A k \in ResourceIds \X HandleKinds : handles[k] = 0

\* An insert reference keeps the World mutably borrowed: the compiler admits
\* no other call while it lives.
WorldShared == \A id \in ResourceIds : Held(id, "insert") = 0

RECURSIVE Sum(_, _)
Sum(f, S) ==
  IF S = {} THEN 0
  ELSE LET x == CHOOSE y \in S : TRUE IN f[x] + Sum(f, S \ {x})

HandleCount == Sum(handles, ResourceIds \X HandleKinds)

\* No error: the call returned a reference or a value.
NoError == [kind |-> "none", resource_type_name |-> "none"]

\* Mutant: the error loses the name of the type asked for.
FetchError_anonymous(id) == [kind |-> "Fetch", resource_type_name |-> "none"]

\* ErrorKind::Fetch(std::any::type_name::<R>()) (world.rs:13-16, 49, 56)
FetchError(id) == [kind |-> "Fetch", resource_type_name |-> id]

WorldRet(op, id, result, created, value) ==
  [op |-> op, id |-> id, result |-> result, created |-> created,
   value |-> value, error |-> NoError]

\* What a failed call gives back: Err(e) from the try_ family, a panic with
\* e from unwrap().
WorldErr(op, id, result, e) ==
  [WorldRet(op, id, result, FALSE, NoValue) EXCEPT !.error = e]

WorldInit ==
  /\ resources = {}
  /\ handles = [k \in ResourceIds \X HandleKinds |-> 0]
  /\ world_ret = WorldRet("none", "none", "none", FALSE, NoValue)
  /\ events_pushed = 0
  /\ written = [id |-> "none", value |-> NoValue]

\* World::insert (world.rs:29-43), needs &mut self: no reference is held.
\* The final fetch_mut finds the entry and an unborrowed RefCell.
Insert(id, create) ==
  /\ UNCHANGED <<registry_vars, thread_vars, join_vars, asset_vars, prefab_vars>>
  /\ NoHandles
  /\ \E r \in {world_insert(resources, id, create)} :
       /\ resources' = r.resources
       /\ world_ret' = WorldRet("insert", id, "ok", id \in r.created,
                                ValueOf(r.resources, id))
       /\ events_pushed' = events_pushed + r.pushed
  /\ handles' = [handles EXCEPT ![<<id, "insert">>] = 1]
  /\ UNCHANGED written

\* try_fetch (world.rs:45-50) and fetch (world.rs:59-61), which unwraps it.
\* borrow() panics on a mutably borrowed RefCell; the Ref it returns is a
\* temporary, dropped before try_fetch returns the &R made from a raw pointer.
TryFetch(id, unwrap) ==
  /\ UNCHANGED <<registry_vars, thread_vars, join_vars, asset_vars, prefab_vars>>
  /\ WorldShared
  /\ LET op == IF unwrap THEN "fetch" ELSE "try_fetch" IN
     IF ~contains(resources, id)
       THEN /\ world_ret' = WorldErr(op, id, IF unwrap THEN "panic" ELSE "err",
                                     FetchError(id))
            /\ UNCHANGED handles
       ELSE IF Get(resources, id).borrow < 0
         THEN /\ world_ret' = WorldRet(op, id, "panic", FALSE, NoValue)
              /\ UNCHANGED handles
         ELSE /\ HandleCount < MaxHandles
              /\ world_ret' = WorldRet(op, id, "ok", FALSE,
                                       ValueOf(resources, id))
              /\ handles' = [handles EXCEPT ![<<id, "shared">>] = @ + 1]
  /\ UNCHANGED <<resources, events_pushed, written>>

\* try_fetch_mut (world.rs:52-57) and fetch_mut (world.rs:63-66).
\* borrow_mut() panics on a borrowed RefCell; the RefMut is a temporary too.
TryFetchMut(id, unwrap) ==
  /\ UNCHANGED <<registry_vars, thread_vars, join_vars, asset_vars, prefab_vars>>
  /\ WorldShared
  /\ LET op == IF unwrap THEN "fetch_mut" ELSE "try_fetch_mut" IN
     IF ~contains(resources, id)
       THEN /\ world_ret' = WorldErr(op, id, IF unwrap THEN "panic" ELSE "err",
                                     FetchError(id))
            /\ UNCHANGED handles
       ELSE IF Get(resources, id).borrow # 0
         THEN /\ world_ret' = WorldRet(op, id, "panic", FALSE, NoValue)
              /\ UNCHANGED handles
         ELSE /\ HandleCount < MaxHandles
              /\ world_ret' = WorldRet(op, id, "ok", FALSE,
                                       ValueOf(resources, id))
              /\ handles' = [handles EXCEPT ![<<id, "exclusive">>] = @ + 1]
  /\ UNCHANGED <<resources, events_pushed, written>>

\* World::contains (world.rs:68-70)
Contains(id) ==
  /\ UNCHANGED <<registry_vars, thread_vars, join_vars, asset_vars, prefab_vars>>
  /\ WorldShared
  /\ world_ret' = WorldRet("contains", id, "ok", FALSE,
                           IF contains(resources, id) THEN 1 ELSE 0)
  /\ world_ret' # world_ret
  /\ UNCHANGED <<resources, handles, events_pushed, written>>

\* Mutant: the assignment lands in every resource of the application.
Assign_everywhere(res, id, v) ==
  {IF e.id # ChannelId THEN [e EXCEPT !.value = v] ELSE e : e \in res}

\* `resource.value = v` through a &mut R: the box behind that one key changes.
Assign(res, id, v) ==
  {IF e.id = id THEN [e EXCEPT !.value = v] ELSE e : e \in res}

\* The caller assigns through a &mut R it holds.
WriteThrough(id, kind, v) ==
  /\ UNCHANGED <<registry_vars, thread_vars, join_vars, asset_vars, prefab_vars>>
  /\ kind # "shared" /\ Held(id, kind) > 0
  /\ resources' = Assign(resources, id, v)
  /\ written' = [id |-> id, value |-> v]
  /\ UNCHANGED <<handles, world_ret, events_pushed>>

\* The caller lets go of a reference.
Drop(id, kind) ==
  /\ UNCHANGED <<registry_vars, thread_vars, join_vars, asset_vars, prefab_vars>>
  /\ Held(id, kind) > 0
  /\ handles' = [handles EXCEPT ![<<id, kind>>] = @ - 1]
  /\ UNCHANGED <<resources, world_ret, events_pushed, written>>

\* ------------------------------------------------------------------------
\* Registry operations, several threads (registry.rs:22-48, 71-83)
\* ------------------------------------------------------------------------

\* Threads calling into the registry.
NumThreads == 2

Threads == 1..NumThreads

\* At most this many registry calls are started by the threads together.
MaxThreadCalls == 3

\* What the threads register: two writers of R1, alone or in one call, and a
\* descriptor of A that reads R1 before write and writes it.
ThreadBatches ==
  {<<Info("A", {}, {"R1"}, {})>>,
   <<Info("B", {}, {"R1"}, {})>>,
   <<Info("A", {}, {"R1"}, {}), Info("B", {}, {"R1"}, {})>>,
   <<Info("A", {"R1"}, {"R1"}, {})>>}

NoOrders == << << >>, << >> >>

ThreadInit ==
  /\ pc = [t \in Threads |-> "idle"]
  /\ pending = [t \in Threads |-> << >>]
  /\ orders = [t \in Threads |-> NoOrders]
  /\ rw_readers = {}
  /\ rw_writer = 0
  /\ built_from = {}

Goto(t, label) == pc' = [pc EXCEPT ![t] = label]

\* RwLock::read succeeds while no writer holds the lock.
CanRead == rw_writer = 0

\* RwLock::write succeeds while nobody holds the lock.
CanWrite == rw_writer = 0 /\ rw_readers = {}

single_caller_vars == <<guard, visited, last_call, latest, cleared>>

\* A thread starts add_system_infos(infos) or systems().
StartAdd(t, infos) ==
  /\ pc[t] = "idle" /\ calls < MaxThreadCalls
  /\ calls' = calls + 1
  /\ pending' = [pending EXCEPT ![t] = infos]
  /\ Goto(t, "add_write")
  /\ UNCHANGED <<systems, resources_info, system_topological_graph,
                 systems_changed, poisoned, single_caller_vars, world_vars,
                 join_vars, asset_vars, prefab_vars,
                 orders, rw_readers, rw_writer, built_from>>

StartSystems(t) ==
  /\ pc[t] = "idle" /\ calls < MaxThreadCalls
  /\ calls' = calls + 1
  /\ Goto(t, "sys_read")
  /\ UNCHANGED <<systems, resources_info, system_topological_graph,
                 systems_changed, poisoned, single_caller_vars, world_vars,
                 join_vars, asset_vars, prefab_vars,
                 pending, orders, rw_readers, rw_writer, built_from>>

\* read().unwrap() / write().unwrap() on a poisoned lock panic
\* (registry.rs:71-76); the thread is gone.
LockPoisoned(t) ==
  /\ pc[t] \in {"add_write", "sys_read", "sys_write", "sys_reread"}
  /\ poisoned /\ rw_writer = 0
  /\ Goto(t, "panicked")
  /\ UNCHANGED <<registry_vars, world_vars, join_vars, asset_vars,
                 prefab_vars, pending, orders, rw_readers,
                 rw_writer, built_from>>

\* Mutant: add_system_infos goes on without the write lock.
AddWrite_unlocked(t) ==
  /\ pc[t] = "add_write" /\ ~poisoned
  /\ Goto(t, "add_flag")
  /\ UNCHANGED <<registry_vars, world_vars, join_vars, asset_vars,
                 prefab_vars, pending, orders, rw_readers,
                 rw_writer, built_from>>

\* add_system_infos, registry.rs:23: let mut sr = Self::write()
AddWrite(t) ==
  /\ pc[t] = "add_write" /\ ~poisoned /\ CanWrite
  /\ rw_writer' = t
  /\ Goto(t, "add_flag")
  /\ UNCHANGED <<registry_vars, world_vars, join_vars, asset_vars,
                 prefab_vars, pending, orders, rw_readers,
                 built_from>>

\* registry.rs:24: sr.systems_changed = true
AddFlag(t) ==
  /\ pc[t] = "add_flag"
  /\ systems_changed' = TRUE
  /\ Goto(t, "add_insert")
  /\ UNCHANGED <<systems, resources_info, system_topological_graph, poisoned,
                 calls, single_caller_vars, world_vars,
                 join_vars, asset_vars, prefab_vars, pending, orders,
                 rw_readers, rw_writer, built_from>>

\* registry.rs:26-28: one turn of the loop.
AddInsert(t) ==
  /\ pc[t] = "add_insert" /\ pending[t] # << >>
  /\ systems' = systems_insert(systems, Head(pending[t]))
  /\ pending' = [pending EXCEPT ![t] = Tail(@)]
  /\ UNCHANGED <<resources_info, system_topological_graph, systems_changed,
                 poisoned, calls, single_caller_vars, world_vars,
                 join_vars, asset_vars, prefab_vars, pc, orders,
                 rw_readers, rw_writer, built_from>>

\* registry.rs:29: the write guard is dropped on return.
AddReturn(t) ==
  /\ pc[t] = "add_insert" /\ pending[t] = << >>
  /\ rw_writer' = IF rw_writer = t THEN 0 ELSE rw_writer
  /\ Goto(t, "idle")
  /\ UNCHANGED <<registry_vars, world_vars, join_vars, asset_vars,
                 prefab_vars, pending, orders, rw_readers,
                 built_from>>

\* systems, registry.rs:35: let sr = SystemRegistry::read()
SysRead(t) ==
  /\ pc[t] = "sys_read" /\ ~poisoned /\ CanRead
  /\ rw_readers' = rw_readers \cup {t}
  /\ Goto(t, "sys_check")
  /\ UNCHANGED <<registry_vars, world_vars, join_vars, asset_vars,
                 prefab_vars, pending, orders, rw_writer,
                 built_from>>

\* registry.rs:36-44: a clean registry is returned under this read guard, a
\* dirty one makes the thread drop the guard and go for the write lock.
SysCheck(t) ==
  /\ pc[t] = "sys_check"
  /\ IF systems_changed
       THEN /\ rw_readers' = rw_readers \ {t}
            /\ Goto(t, "sys_write")
       ELSE /\ UNCHANGED rw_readers
            /\ Goto(t, "holding")
  /\ UNCHANGED <<registry_vars, world_vars, join_vars, asset_vars,
                 prefab_vars, pending, orders, rw_writer,
                 built_from>>

\* registry.rs:38: let mut sr = Self::write()
SysWrite(t) ==
  /\ pc[t] = "sys_write" /\ ~poisoned /\ CanWrite
  /\ rw_writer' = t
  /\ Goto(t, "refresh")
  /\ UNCHANGED <<registry_vars, world_vars, join_vars, asset_vars,
                 prefab_vars, pending, orders, rw_readers,
                 built_from>>

\* refresh, registry.rs:79-83: nothing to do on a clean registry, else the
\* flag is cleared first.  The iteration orders of this rebuild are fixed here.
RefreshBegin(t) ==
  /\ pc[t] = "refresh"
  /\ IF systems_changed
       THEN /\ systems_changed' = FALSE
            /\ \E vorder \in Perms(systems), sorder \in Perms(systems) :
                 orders' = [orders EXCEPT ![t] = <<vorder, sorder>>]
            /\ built_from' = systems
            /\ Goto(t, "refresh_info")
       ELSE /\ UNCHANGED <<systems_changed, orders, built_from>>
            /\ Goto(t, "sys_drop_write")
  /\ UNCHANGED <<systems, resources_info, system_topological_graph, poisoned,
                 calls, single_caller_vars, world_vars,
                 join_vars, asset_vars, prefab_vars, pending, rw_readers,
                 rw_writer>>

\* registry.rs:85-115
RefreshInfo(t) ==
  /\ pc[t] = "refresh_info"
  /\ resources_info' =
       AddResourcesInfo(resources_info_clear(resources_info), systems)
  /\ Goto(t, "refresh_readers")
  /\ UNCHANGED <<systems, system_topological_graph, systems_changed, poisoned,
                 calls, single_caller_vars, world_vars,
                 join_vars, asset_vars, prefab_vars, pending, orders,
                 rw_readers, rw_writer, built_from>>

\* registry.rs:117-136; a cycle is the panic that drops the write guard and
\* poisons the lock.
RefreshReaders(t) ==
  /\ pc[t] = "refresh_readers"
  /\ \E g \in {ReaderWriterPass(graph_clear(system_topological_graph),
                                resources_info, orders[t][1], orders[t][2])} :
       /\ system_topological_graph' = g
       /\ IF g.cycle = {}
            THEN /\ Goto(t, "refresh_writers")
                 /\ UNCHANGED <<poisoned, rw_writer>>
            ELSE /\ Goto(t, "panicked")
                 /\ poisoned' = TRUE
                 /\ rw_writer' = IF rw_writer = t THEN 0 ELSE rw_writer
  /\ UNCHANGED <<systems, resources_info, systems_changed, calls,
                 single_caller_vars, world_vars,
                 join_vars, asset_vars, prefab_vars, pending, orders, rw_readers,
                 built_from>>

\* registry.rs:138-148
RefreshWriters(t) ==
  /\ pc[t] = "refresh_writers"
  /\ system_topological_graph' =
       WriterWriterPass(system_topological_graph, resources_info,
                        orders[t][1], orders[t][2])
  /\ Goto(t, "sys_drop_write")
  /\ UNCHANGED <<systems, resources_info, systems_changed, poisoned, calls,
                 single_caller_vars, world_vars,
                 join_vars, asset_vars, prefab_vars, pending, orders, rw_readers,
                 rw_writer, built_from>>

\* registry.rs:40: drop(sr)
SysDropWrite(t) ==
  /\ pc[t] = "sys_drop_write"
  /\ rw_writer' = IF rw_writer = t THEN 0 ELSE rw_writer
  /\ orders' = [orders EXCEPT ![t] = NoOrders]
  /\ Goto(t, "sys_reread")
  /\ UNCHANGED <<registry_vars, world_vars, join_vars, asset_vars,
                 prefab_vars, pending, rw_readers, built_from>>

\* registry.rs:41-47: Self::read(), then the visitor and the guard are returned.
SysReread(t) ==
  /\ pc[t] = "sys_reread" /\ ~poisoned /\ CanRead
  /\ rw_readers' = rw_readers \cup {t}
  /\ Goto(t, "holding")
  /\ UNCHANGED <<registry_vars, world_vars, join_vars, asset_vars,
                 prefab_vars, pending, orders, rw_writer,
                 built_from>>

\* The caller drops the guard systems() returned.
DropGuard(t) ==
  /\ pc[t] = "holding"
  /\ rw_readers' = rw_readers \ {t}
  /\ Goto(t, "idle")
  /\ UNCHANGED <<registry_vars, world_vars, join_vars, asset_vars,
                 prefab_vars, pending, orders, rw_writer,
                 built_from>>

\* ------------------------------------------------------------------------
\* Join (join.rs:5-75)
\* ------------------------------------------------------------------------

\* Join sources (component storages) the caller can put in a tuple.
NumSources == 3

Sources == 1..NumSources

\* Entity identifiers are 0..MaxId.
MaxId == 2

Ids == 0..MaxId

\* A Join implementor: a source, or a tuple of Join implementors
\* (join.rs:54). All carry the same fields.
Leaf(s) == [kind |-> "leaf", source |-> s, parts |-> << >>]

Tuple(parts) == [kind |-> "tuple", source |-> 0, parts |-> parts]

Sub(p, i, j) == [k \in 1..(j - i + 1) |-> p[i + k - 1]]

\* The tuples of two or more distinct sources, in every order.
FlatJoins ==
  {Tuple([i \in 1..Len(p) |-> Leaf(p[i])]) :
     p \in {q \in UNION {[1..n -> Sources] : n \in 2..NumSources} :
              \A i, j \in 1..Len(q) : i # j => q[i] # q[j]}}

\* The runs of two or more neighbours in a tuple of n parts, short of all n.
Runs(n) ==
  {r \in (1..n) \X (1..n) : r[1] < r[2] /\ ~(r[1] = 1 /\ r[2] = n)}

\* The tuple p with the parts i..j made a tuple of their own.
Group(p, i, j) ==
  Tuple(Sub(p, 1, i - 1) \o <<Tuple(Sub(p, i, j))>> \o Sub(p, j + 1, Len(p)))

\* The tuples with one nested tuple: ((a, b), c), (a, (b, c)), ...
NestedJoins ==
  UNION {{Group(f.parts, r[1], r[2]) : r \in Runs(Len(f.parts))} :
           f \in FlatJoins}

JoinShapes == FlatJoins \cup NestedJoins

\* The sources a Join implementor is made of.
RECURSIVE Leaves(_)
Leaves(j) ==
  IF j.kind = "leaf" THEN {j.source}
  ELSE UNION {Leaves(j.parts[i]) : i \in 1..Len(j.parts)}

\* The component a source stores for an id: what its get returns for an id
\* of its bitset.
Component(s, id) == [kind |-> "component", source |-> s, id |-> id, parts |-> << >>]

\* The tuple of components a tuple's get returns (join.rs:56).
Components(id, parts) == [kind |-> "tuple", source |-> 0, id |-> id, parts |-> parts]

\* What get makes of memory that holds no component.
Garbage == [kind |-> "garbage", source |-> 0, id |-> 0, parts |-> << >>]

\* Mutant: the union of the two bitsets.
BitSetAnd_or(b0, b1) == b0 \cup b1

\* hibitset::BitSetAnd: an id is set when it is set in both.
BitSetAnd(b0, b1) == b0 \cap b1

\* Mutant: the first bitset alone.
bit_set_and_first(masks) == masks[1]

\* bit_set_and! (join.rs:39-48): BitSetAnd(b0, BitSetAnd(b1, ...)).
RECURSIVE bit_set_and(_)
bit_set_and(masks) ==
  IF Len(masks) = 1 THEN masks[1]
  ELSE BitSetAnd(masks[1], bit_set_and(Tail(masks)))

\* Join::open (join.rs:60-64): a source hands out its bitset and itself, a
\* tuple opens every part, ANDs the bitsets and tuples the components.
RECURSIVE open(_, _)
open(b, j) ==
  IF j.kind = "leaf" THEN [mask |-> b[j.source], components |-> j]
  ELSE LET opened == [i \in 1..Len(j.parts) |-> open(b, j.parts[i])]
       IN [mask |-> bit_set_and([i \in 1..Len(j.parts) |-> opened[i].mask]),
           components |->
             Tuple([i \in 1..Len(j.parts) |-> opened[i].components])]

\* Join::get (join.rs:67-70): every part's get at the same id, tupled.
RECURSIVE get(_, _)
get(components, id) ==
  IF components.kind = "leaf" THEN Component(components.source, id)
  ELSE Components(id, [i \in 1..Len(components.parts) |->
                         get(components.parts[i], id)])

\* Mutant: the iterator walks the ids from the top.
bit_iter_next_descending(mask_iter) ==
  CHOOSE id \in mask_iter : \A o \in mask_iter : o <= id

\* hibitset::BitIter::next: the lowest id still set.
bit_iter_next(mask_iter) ==
  CHOOSE id \in mask_iter : \A o \in mask_iter : id <= o

NewIter ==
  [state |-> "new", mask_iter |-> {}, components |-> Leaf(0), items |-> << >>]

\* No join has been built.
JoinInit ==
  /\ bitsets = [s \in Sources |-> {}]
  /\ joined = << >>
  /\ iters = << >>
  /\ accessed = {}
  /\ join_ub = FALSE

\* Join::join (join.rs:9-15) on the k-th join of the caller, the second after
\* the first has been iterated to its end.
Join(k) ==
  /\ UNCHANGED <<registry_vars, world_vars, thread_vars, asset_vars, prefab_vars>>
  /\ iters[k].state = "new"
  /\ k > 1 => iters[k - 1].state = "done"
  /\ LET o == open(bitsets, joined[k])
     IN iters' = [iters EXCEPT ![k] = [state |-> "open", mask_iter |-> o.mask,
                                       components |-> o.components,
                                       items |-> << >>]]
  /\ UNCHANGED <<bitsets, joined, accessed, join_ub>>

\* JoinIterator::next (join.rs:32-36). get on an id a source has no component
\* for is undefined behaviour: it returns the tuple or anything else.
JoinIteratorNext(k) ==
  /\ UNCHANGED <<registry_vars, world_vars, thread_vars, asset_vars, prefab_vars>>
  /\ iters[k].state = "open"
  /\ IF iters[k].mask_iter = {}
       THEN /\ iters' = [iters EXCEPT ![k].state = "done"]
            /\ UNCHANGED <<accessed, join_ub>>
       ELSE LET id == bit_iter_next(iters[k].mask_iter)
                touched == {<<s, id>> : s \in Leaves(iters[k].components)}
                defined == \A a \in touched : a[2] \in bitsets[a[1]]
            IN /\ \E c \in {get(iters[k].components, id)}
                             \cup (IF defined THEN {} ELSE {Garbage}) :
                    iters' = [iters EXCEPT
                                ![k].mask_iter = @ \ {id},
                                ![k].items = Append(@, [id |-> id, component |-> c])]
               /\ accessed' = accessed \cup touched
               /\ join_ub' = (join_ub \/ ~defined)
  /\ UNCHANGED <<bitsets, joined>>

\* ------------------------------------------------------------------------
\* tb_engine AssetLoader (asset/mod.rs)
\* ------------------------------------------------------------------------

\* The path_to_ids keys are the PathBufs that `path.into()` gives; the
\* asset types are the T of load::<T> and get::<T>.
Paths == {"a.json", "b.json"}
AssetTypes == {"T1", "T2"}
AssetIds == 0..Cardinality(Paths)

\* AssetHandle<T>: the id, and T carried in the type only.
AssetHandle(id, T) == [id |-> id, type |-> T]

\* What load_block::<T>(id, path) sends: the id with the boxed T read from
\* the file, or with the error of File::open or serde_json::from_reader.
LoadOutcomes == {"ok", "err"}

load_block(id, path, T, outcome) ==
  IF outcome = "ok"
    THEN [id |-> id, result |-> "ok", asset |-> [type |-> T, path |-> path]]
    ELSE [id |-> id, result |-> "err", asset |-> [type |-> T, path |-> path]]

NoAssetCall ==
  [op |-> "none", handle |-> AssetHandle(0, "T1"), result |-> "none"]

AssetRet(op, handle, result) ==
  [op |-> op, handle |-> handle, result |-> result]

\* AssetLoader::default().
AssetInit ==
  /\ id_to_assets = << >>
  /\ path_to_ids = << >>
  /\ next_id = 0
  /\ loading_pool = {}
  /\ completed_assets = << >>
  /\ asset_pc = "idle"
  /\ asset_handles = {}
  /\ asset_ret = NoAssetCall
  /\ scheduled = [p \in Paths |-> 0]
  /\ received = [i \in AssetIds |-> 0]
  /\ logged = {}

asset_history == <<scheduled, received, logged>>

\* A load that hands a job to the pool on every call, the Occupied arm too.
Load_reschedules(path, T) ==
  /\ UNCHANGED <<registry_vars, world_vars, thread_vars, join_vars, prefab_vars>>
  /\ asset_pc = "idle"
  /\ LET id == IF path \in DOMAIN path_to_ids
                 THEN path_to_ids[path] ELSE next_id
     IN /\ next_id' = IF path \in DOMAIN path_to_ids
                        THEN next_id ELSE next_id + 1
        /\ scheduled[path] < 2
        /\ loading_pool' =
             loading_pool \cup {[id |-> id, path |-> path, type |-> T,
                                 nth |-> scheduled[path]]}
        /\ scheduled' = [scheduled EXCEPT ![path] = @ + 1]
        /\ path_to_ids' = (path :> id) @@ path_to_ids
        /\ asset_handles' = asset_handles \cup {AssetHandle(id, T)}
        /\ asset_ret' = AssetRet("load", AssetHandle(id, T), "handle")
  /\ UNCHANGED <<id_to_assets, completed_assets, asset_pc, received, logged>>

\* AssetLoader::load::<T>(path).
Load(path, T) ==
  /\ UNCHANGED <<registry_vars, world_vars, thread_vars, join_vars, prefab_vars>>
  /\ asset_pc = "idle"
  /\ IF path \in DOMAIN path_to_ids
       THEN LET id == path_to_ids[path]
            IN /\ asset_handles' = asset_handles \cup {AssetHandle(id, T)}
               /\ asset_ret' = AssetRet("load", AssetHandle(id, T), "handle")
               /\ UNCHANGED <<next_id, loading_pool, path_to_ids, scheduled>>
       ELSE LET id == next_id
            IN /\ next_id' = next_id + 1
               /\ loading_pool' =
                    loading_pool \cup {[id |-> id, path |-> path, type |-> T,
                                        nth |-> scheduled[path]]}
               /\ scheduled' = [scheduled EXCEPT ![path] = @ + 1]
               /\ path_to_ids' = (path :> id) @@ path_to_ids
               /\ asset_handles' = asset_handles \cup {AssetHandle(id, T)}
               /\ asset_ret' = AssetRet("load", AssetHandle(id, T), "handle")
  /\ UNCHANGED <<id_to_assets, completed_assets, asset_pc, received, logged>>

\* A pool thread runs one job: load_block, then sender.send. The outcome
\* is the file system's, so either; the thread runs whenever the pool
\* schedules it, inside an update call too.
WorkerRun(job, outcome) ==
  /\ UNCHANGED <<registry_vars, world_vars, thread_vars, join_vars, prefab_vars>>
  /\ job \in loading_pool
  /\ loading_pool' = loading_pool \ {job}
  /\ completed_assets' =
       Append(completed_assets,
              load_block(job.id, job.path, job.type, outcome))
  /\ UNCHANGED <<id_to_assets, path_to_ids, next_id, asset_pc, asset_handles,
                 asset_ret, asset_history>>

\* AssetLoader::update is entered (by LoadAssetSystem::run or directly).
UpdateEnter ==
  /\ UNCHANGED <<registry_vars, world_vars, thread_vars, join_vars, prefab_vars>>
  /\ asset_pc = "idle"
  /\ asset_pc' = "update"
  /\ UNCHANGED <<id_to_assets, path_to_ids, next_id, loading_pool,
                 completed_assets, asset_handles, asset_ret, asset_history>>

\* One turn of update's loop with a message in the channel: an error is
\* printed and the loop continues, an asset is inserted under the assert.
\* The loader holds a sender itself, so try_recv never sees Disconnected.
UpdateRecv ==
  /\ UNCHANGED <<registry_vars, world_vars, thread_vars, join_vars, prefab_vars>>
  /\ asset_pc = "update"
  /\ completed_assets # << >>
  /\ LET msg == Head(completed_assets)
     IN /\ completed_assets' = Tail(completed_assets)
        /\ received' = [received EXCEPT ![msg.id] = @ + 1]
        /\ IF msg.result = "err"
             THEN /\ logged' = logged \cup {msg.id}
                  /\ UNCHANGED <<id_to_assets, asset_pc, asset_ret>>
             ELSE /\ logged' = logged
                  /\ id_to_assets' = (msg.id :> msg.asset) @@ id_to_assets
                  /\ IF msg.id \in DOMAIN id_to_assets
                       THEN /\ asset_pc' = "panicked"
                            /\ asset_ret' =
                                 AssetRet("update", AssetHandle(msg.id, msg.asset.type),
                                          "assert failed")
                       ELSE UNCHANGED <<asset_pc, asset_ret>>
  /\ UNCHANGED <<path_to_ids, next_id, loading_pool, asset_handles, scheduled>>

\* try_recv finds the channel empty: break, and update returns Ok(()).
UpdateReturn ==
  /\ UNCHANGED <<registry_vars, world_vars, thread_vars, join_vars, prefab_vars>>
  /\ asset_pc = "update"
  /\ completed_assets = << >>
  /\ asset_pc' = "idle"
  /\ asset_ret' = AssetRet("update", asset_ret.handle, "ok")
  /\ UNCHANGED <<id_to_assets, path_to_ids, next_id, loading_pool,
                 completed_assets, asset_handles, asset_history>>

\* asset.downcast_ref::<T>(): the stored box as a T, if it holds a T.
downcast_ref(asset, T) == IF asset.type = T THEN "some" ELSE "none"

\* AssetLoader::get::<T>(handle): None for an id not in id_to_assets, else
\* the downcast of the stored box, unwrapped.
AssetGet(handle) ==
  /\ UNCHANGED <<registry_vars, world_vars, thread_vars, join_vars, prefab_vars>>
  /\ asset_pc = "idle"
  /\ handle \in asset_handles
  /\ IF handle.id \notin DOMAIN id_to_assets
       THEN /\ asset_ret' = AssetRet("get", handle, "none")
            /\ UNCHANGED asset_pc
       ELSE IF downcast_ref(id_to_assets[handle.id], handle.type) = "some"
              THEN /\ asset_ret' = AssetRet("get", handle, "some")
                   /\ UNCHANGED asset_pc
              ELSE /\ asset_ret' = AssetRet("get", handle, "unwrap on None")
                   /\ asset_pc' = "panicked"
  /\ UNCHANGED <<id_to_assets, path_to_ids, next_id, loading_pool,
                 completed_assets, asset_handles, asset_history>>

\* ------------------------------------------------------------------------
\* tb_engine Prefab (prefab.rs)
\* ------------------------------------------------------------------------

\* The local entities a prefab may name (those of tests::convert_to_world).
LocalEntities == {7, 10, 15}
MaxStorages == 3            \* component storages in a prefab
MaxItems == 1               \* components in one storage
MaxRefs == 1                \* entity references in one component
MaxExisting == 1            \* entities the world has before the attach

SeqsUpTo(S, n) == UNION {[1..k -> S] : k \in 0..n}

\* One (entity, component) of a storage; the component is its entity
\* references, in the order get_entity_ref visits them.
PrefabItems(with_refs) ==
  [entity : LocalEntities,
   refs : IF with_refs THEN SeqsUpTo(LocalEntities, MaxRefs) ELSE {<< >>}]

\* ComponentStorageInPrefab<C>: with_refs tells which impl of attach C
\* selects, the one for ComponentWithEntityRef or the default one.
Storages ==
  UNION {[with_refs : {w}, items : SeqsUpTo(PrefabItems(w), MaxItems)] :
           w \in BOOLEAN}

Prefabs ==
  [root_entity : LocalEntities, components : SeqsUpTo(Storages, MaxStorages)]

\* The prefab of tests::convert_to_world, whose third component holds
\* two references.
TestPrefab ==
  [root_entity |-> 15,
   components |->
     << [with_refs |-> FALSE, items |-> << [entity |-> 10, refs |-> << >>] >>],
        [with_refs |-> TRUE, items |-> << [entity |-> 7, refs |-> <<15>>] >>],
        [with_refs |-> TRUE,
         items |-> << [entity |-> 15, refs |-> <<7, 10>>] >>] >>]

\* Entities::default(), and Entities::new_entity: the next unused id.
EntitiesDefault == [present |-> TRUE, next |-> 0]
NoEntities == [present |-> FALSE, next |-> 0]
new_entity(e) == [entity |-> e.next, entities |-> [e EXCEPT !.next = @ + 1]]

\* world.insert(Entities::default): kept when the world has one already.
InsertEntities(e) == IF e.present THEN e ELSE EntitiesDefault

\* BiHashMap::get_by_left and insert_no_overwrite on a set of
\* <<local, world>> pairs.
get_by_left(map, local) == {p \in map : p[1] = local}

insert_no_overwrite(map, local, entity) ==
  IF \E p \in map : p[1] = local \/ p[2] = entity
    THEN [ok |-> FALSE, map |-> map]
    ELSE [ok |-> TRUE, map |-> map \cup {<<local, entity>>}]

\* The state build_link works on: the link's map, the Entities resource
\* and the calls so far.
LinkState(map, e, log) == [map |-> map, entities |-> e, log |-> log]

LinkCall(local, entity, fresh, ok) ==
  [local |-> local, entity |-> entity, fresh |-> fresh, ok |-> ok]

\* A build_link that allocates on every call and overwrites the pair.
build_link_always_new(st, local) ==
  LET made == new_entity(st.entities)
  IN [entity |-> made.entity,
      st |-> LinkState({p \in st.map : p[1] # local}
                         \cup {<<local, made.entity>>},
                       made.entities,
                       Append(st.log,
                              LinkCall(local, made.entity, TRUE, TRUE)))]

\* PrefabLink::build_link(local, entities).
build_link(st, local) ==
  LET found == get_by_left(st.map, local)
  IN IF found = {}
       THEN LET made == new_entity(st.entities)
                ins == insert_no_overwrite(st.map, local, made.entity)
            IN [entity |-> made.entity,
                st |-> LinkState(ins.map, made.entities,
                                 Append(st.log,
                                        LinkCall(local, made.entity, TRUE,
                                                 ins.ok)))]
       ELSE LET entity == (CHOOSE p \in found : TRUE)[2]
            IN [entity |-> entity,
                st |-> LinkState(st.map, st.entities,
                                 Append(st.log,
                                        LinkCall(local, entity, FALSE, TRUE)))]

\* ConvertToWorld::convert_to_world: every reference through build_link,
\* in for_each's order.
RECURSIVE convert_to_world(_, _)
convert_to_world(st, refs) ==
  IF refs = << >>
    THEN [refs |-> << >>, st |-> st]
    ELSE LET first == build_link(st, Head(refs))
             rest == convert_to_world(first.st, Tail(refs))
         IN [refs |-> <<first.entity>> \o rest.refs, st |-> rest.st]

\* The closure of attach for one (entity, component): with references,
\* they are converted first and the owner linked after; without, the
\* component is cloned as it is.
AttachItem(st, item, with_refs, storage) ==
  LET conv == IF with_refs THEN convert_to_world(st, item.refs)
                           ELSE [refs |-> item.refs, st |-> st]
      owner == build_link(conv.st, item.entity)
  IN [st |-> owner.st,
      component |-> [storage |-> storage, local |-> item.entity,
                     entity |-> owner.entity, refs |-> conv.refs,
                     local_refs |-> item.refs]]

RECURSIVE AttachItems(_, _, _, _)
AttachItems(st, items, with_refs, storage) ==
  IF items = << >>
    THEN [st |-> st, components |-> {}]
    ELSE LET first == AttachItem(st, Head(items), with_refs, storage)
             rest == AttachItems(first.st, Tail(items), with_refs, storage)
         IN [st |-> rest.st,
             components |-> {first.component} \cup rest.components]

\* Prefab::attach starts with PrefabLink::default().
PrefabInit ==
  /\ prefab = [root_entity |-> 7, components |-> << >>]
  /\ link = {}
  /\ entities = NoEntities
  /\ components_in_world = {}
  /\ prefab_links = {}
  /\ attach_pc = 1
  /\ link_log = << >>

\* ComponentsInPrefab::attach of the storage Prefab::attach has come to.
\* The default impl inserts Entities first; the impl for components with
\* references fetches Entities without inserting it, and whether
\* insert_components has put it there is decided outside this code, so
\* with no Entities in the world it panics or goes on with a default one.
AttachStorage ==
  /\ UNCHANGED <<registry_vars, world_vars, thread_vars, join_vars, asset_vars>>
  /\ attach_pc \in 1..Len(prefab.components)
  /\ LET storage == prefab.components[attach_pc]
     IN \E fetched \in IF storage.with_refs /\ ~entities.present
                         THEN {TRUE, FALSE} ELSE {TRUE} :
          IF fetched
            THEN LET done == AttachItems(
                               LinkState(link, InsertEntities(entities),
                                         link_log),
                               storage.items, storage.with_refs, attach_pc)
                 IN /\ link' = done.st.map
                    /\ entities' = done.st.entities
                    /\ link_log' = done.st.log
                    /\ components_in_world' =
                         components_in_world \cup done.components
                    /\ attach_pc' = attach_pc + 1
            ELSE /\ attach_pc' = 0
                 /\ UNCHANGED <<link, entities, link_log, components_in_world>>
  /\ UNCHANGED <<prefab, prefab_links>>

\* The end of Prefab::attach: Entities is inserted if missing and the
\* link is stored on the world entity of root_entity.
AttachRoot ==
  /\ UNCHANGED <<registry_vars, world_vars, thread_vars, join_vars, asset_vars>>
  /\ attach_pc = Len(prefab.components) + 1
  /\ LET root == build_link(LinkState(link, InsertEntities(entities),
                                      link_log),
                            prefab.root_entity)
     IN /\ link' = root.st.map
        /\ entities' = root.st.entities
        /\ link_log' = root.st.log
        /\ prefab_links' =
             prefab_links \cup {[entity |-> root.entity, link |-> root.st.map]}
        /\ attach_pc' = attach_pc + 1
  /\ UNCHANGED <<prefab, components_in_world>>

\* ------------------------------------------------------------------------
\* Specifications
\* ------------------------------------------------------------------------

\* The registry driven by one caller, descriptors from the catalogue.
Init ==
  /\ WorldInit /\ ThreadInit /\ JoinInit /\ AssetInit /\ PrefabInit
  /\ \E inventory \in Batches : RegistryInit(inventory)

Next ==
  \/ \E infos \in Batches : AddSystemInfos(infos, MaxCalls)
  \/ Systems(MaxCalls)
  \/ PoisonedCall
  \/ VisitorNext
  \/ ReleaseGuard

Spec == Init /\ [][Next]_vars

\* One schedule request on every registration set of the bounded universe.
MaxRebuilds == 1

RECURSIVE SeqOf(_)
SeqOf(S) == IF S = {} THEN << >>
            ELSE LET x == CHOOSE y \in S : TRUE IN <<x>> \o SeqOf(S \ {x})

InitSchedule ==
  /\ WorldInit /\ ThreadInit /\ JoinInit /\ AssetInit /\ PrefabInit
  /\ \E chosen \in SUBSET TypeIds :
       \E by_type \in [chosen -> SystemInfo] :
         /\ \A t \in chosen : by_type[t].type_id = t
         /\ RegistryInit(SeqOf({by_type[t] : t \in chosen}))

NextSchedule ==
  \/ Systems(MaxRebuilds)
  \/ PoisonedCall
  \/ VisitorNext
  \/ ReleaseGuard

SpecSchedule == InitSchedule /\ [][NextSchedule]_vars

\* The resource store driven by one thread of callers.
InitWorld ==
  /\ WorldInit /\ ThreadInit /\ JoinInit /\ AssetInit /\ PrefabInit
  /\ RegistryInit(<< >>)

NextWorld ==
  \/ \E id \in ResourceIds, create \in Values : Insert(id, create)
  \/ \E id \in ResourceIds, unwrap \in BOOLEAN : TryFetch(id, unwrap)
  \/ \E id \in ResourceIds, unwrap \in BOOLEAN : TryFetchMut(id, unwrap)
  \/ \E id \in ResourceIds : Contains(id)
  \/ \E id \in ResourceIds, kind \in HandleKinds, v \in Values :
       WriteThrough(id, kind, v)
  \/ \E id \in ResourceIds, kind \in HandleKinds : Drop(id, kind)

SpecWorld == InitWorld /\ [][NextWorld]_vars

\* The registry called by several threads, from an empty static collection.
InitThreads ==
  /\ WorldInit /\ ThreadInit /\ JoinInit /\ AssetInit /\ PrefabInit
  /\ RegistryInit(<< >>)

NextThreads ==
  \E t \in Threads :
    \/ \E infos \in ThreadBatches : StartAdd(t, infos)
    \/ StartSystems(t)
    \/ LockPoisoned(t)
    \/ AddWrite(t)
    \/ AddFlag(t)
    \/ AddInsert(t)
    \/ AddReturn(t)
    \/ SysRead(t)
    \/ SysCheck(t)
    \/ SysWrite(t)
    \/ RefreshBegin(t)
    \/ RefreshInfo(t)
    \/ RefreshReaders(t)
    \/ RefreshWriters(t)
    \/ SysDropWrite(t)
    \/ SysReread(t)
    \/ DropGuard(t)

SpecThreads == InitThreads /\ [][NextThreads]_vars

\* A join of any shape over any bitsets, iterated to its end, and then the
\* tuple of the same sources in ascending order.
RECURSIVE Ascending(_)
Ascending(S) ==
  IF S = {} THEN << >>
  ELSE LET x == CHOOSE y \in S : \A o \in S : y <= o
       IN <<x>> \o Ascending(S \ {x})

InitJoin ==
  /\ WorldInit /\ ThreadInit /\ AssetInit /\ PrefabInit
  /\ RegistryInit(<< >>)
  /\ \E j \in JoinShapes :
       \E m \in [Leaves(j) -> SUBSET Ids] :
         /\ bitsets = [s \in Sources |-> IF s \in Leaves(j) THEN m[s] ELSE {}]
         /\ joined = <<j, Tuple([i \in 1..Cardinality(Leaves(j)) |->
                                   Leaf(Ascending(Leaves(j))[i])])>>
  /\ iters = <<NewIter, NewIter>>
  /\ accessed = {}
  /\ join_ub = FALSE

NextJoin ==
  \E k \in 1..2 :
    \/ Join(k)
    \/ JoinIteratorNext(k)

SpecJoin == InitJoin /\ [][NextJoin]_vars

\* The asset loader: one thread owning it, the pool's threads beside it.
InitAsset ==
  /\ WorldInit /\ ThreadInit /\ JoinInit /\ AssetInit /\ PrefabInit
  /\ RegistryInit(<< >>)

NextAsset ==
  \/ \E path \in Paths, T \in AssetTypes : Load(path, T)
  \/ \E job \in loading_pool, outcome \in LoadOutcomes : WorkerRun(job, outcome)
  \/ UpdateEnter
  \/ UpdateRecv
  \/ UpdateReturn
  \/ \E handle \in asset_handles : AssetGet(handle)

SpecAsset == InitAsset /\ [][NextAsset]_vars

\* One Prefab::attach, of any prefab within the bounds or of the test's,
\* into a world with or without entities.
InitPrefab ==
  /\ WorldInit /\ ThreadInit /\ JoinInit /\ AssetInit /\ RegistryInit(<< >>)
  /\ prefab \in Prefabs \cup {TestPrefab}
  /\ link = {}
  /\ entities \in {NoEntities}
                    \cup {[present |-> TRUE, next |-> n] : n \in 0..MaxExisting}
  /\ components_in_world = {}
  /\ prefab_links = {}
  /\ attach_pc = 1
  /\ link_log = << >>

NextPrefab == AttachStorage \/ AttachRoot

SpecPrefab == InitPrefab /\ [][NextPrefab]_vars

\* ------------------------------------------------------------------------
\* Properties of the schedule
\* ------------------------------------------------------------------------

\* What the descriptors alone demand: x must run before y because x reads a
\* resource before y writes it, or y reads a resource after x writes it.
DeclaredBefore(x, y) ==
  \E r \in Resources :
    \/ r \in x.reads_before_write /\ r \in y.writes
    \/ r \in x.writes /\ r \in y.reads_after_write

DeclaredEdges(S) == {e \in S \X S : DeclaredBefore(e[1], e[2])}

\* Some system must, by the declarations, run before itself.
DeclaredCyclic(S) ==
  \E e \in DeclaredEdges(S) : Reaches(DeclaredEdges(S), e[2], e[1])

Yielded == {visited[i].system : i \in 1..Len(visited)}

Drained ==
  guard /\ VisitorCandidates(system_topological_graph, Yielded) = {}

YieldedBefore(x, i) == \E j \in 1..(i - 1) : visited[j].system = x

\* C1: in every schedule systems() hands out, for every resource, each system
\* that reads the resource before write has been yielded before any writer of
\* it is yielded, and each writer of it before any system that reads it after
\* write.
C1_ReadersAroundWriters ==
  guard =>
    \A i \in 1..Len(visited) : \A r \in Resources :
      LET s == visited[i].system IN
      /\ r \in s.writes =>
           \A b \in systems : r \in b.reads_before_write => YieldedBefore(b, i)
      /\ r \in s.reads_after_write =>
           \A w \in systems : r \in w.writes => YieldedBefore(w, i)

\* B reads R1 before write, C reads it after write, A writes it: B, A, C.
C1_Witness ==
  /\ guard
  /\ visited = << [system |-> Info("B", {"R1"}, {}, {}), flag |-> 0],
                  [system |-> Info("A", {}, {"R1"}, {}), flag |-> 1],
                  [system |-> Info("C", {}, {}, {"R1"}), flag |-> 2] >>

\* C3: a registration set whose declarations are cyclic never gets a
\* schedule: the first systems() call panics during the rebuild, the report
\* names systems of the set that lie on a declared cycle, and every later
\* call panics as well.
C3_CycleIsFatal ==
  /\ guard => ~DeclaredCyclic(systems)
  /\ last_call.op = "systems" /\ last_call.result = "ok"
       => ~DeclaredCyclic(systems)
  /\ DeclaredCyclic(systems) /\ calls > 0 =>
       /\ poisoned
       /\ last_call.result = "panic"
       /\ last_call.rebuilt =>
            /\ last_call.report # {}
            /\ last_call.report \subseteq systems
            /\ \A x \in last_call.report :
                 \E y \in systems :
                   /\ DeclaredBefore(x, y)
                   /\ Reaches(DeclaredEdges(systems), y, x)

\* A writes R1 and reads R2 after write, B writes R2 and reads R1 after write.
C3_Witness ==
  /\ poisoned
  /\ last_call.result = "panic"
  /\ last_call.report = {Info("A", {}, {"R1"}, {"R2"}),
                         Info("B", {}, {"R2"}, {"R1"})}

\* Two writers of one resource that no reader relation orders.
UnconnectedWriters(S, x, y) ==
  /\ x # y
  /\ \E r \in Resources : r \in x.writes /\ r \in y.writes
  /\ ~Reaches(DeclaredEdges(S), x, y)
  /\ ~Reaches(DeclaredEdges(S), y, x)

\* C4: the order the rebuild gives two writers of one resource that no reader
\* relation connects is the same under every iteration order of the
\* registry's hash containers.
C4_WriterOrderFixed ==
  ~systems_changed /\ ~poisoned =>
    \A x, y \in systems :
      UnconnectedWriters(systems, x, y) =>
        \A vorder \in Perms(systems), sorder \in Perms(systems) :
          Reaches(Refresh(systems, vorder, sorder).graph.deps, x, y)
            <=> Reaches(system_topological_graph.deps, x, y)

\* C5: two yielded systems with the same wavefront index have no path
\* between them in the graph, and every graph predecessor of a yielded system
\* was yielded with a strictly smaller index.
C5_WavefrontsIndependent ==
  guard =>
    \A i \in 1..Len(visited) :
      /\ \A j \in 1..Len(visited) :
           i # j /\ visited[i].flag = visited[j].flag =>
             ~Reaches(system_topological_graph.deps,
                      visited[i].system, visited[j].system)
      /\ \A p \in Preds(system_topological_graph, visited[i].system) :
           \E j \in 1..Len(visited) :
             visited[j].system = p /\ visited[j].flag < visited[i].flag

\* Two systems share a wavefront and a third follows in the next one.
C5_Witness ==
  /\ guard /\ Len(visited) = 3
  /\ visited[1].flag = 0 /\ visited[2].flag = 0 /\ visited[3].flag = 1
  /\ Preds(system_topological_graph, visited[3].system)
       = {visited[1].system, visited[2].system}

\* C6: the visitor yields no system twice and none before its graph
\* predecessors, it can go on while a registered system is missing, and once
\* drained it has yielded exactly the registered systems, those declaring no
\* resource included.
C6_DrainYieldsAllOnce ==
  guard =>
    /\ \A i, j \in 1..Len(visited) :
         visited[i].system = visited[j].system => i = j
    /\ Yielded \subseteq systems
    /\ \A i \in 1..Len(visited) :
         \A p \in Preds(system_topological_graph, visited[i].system) :
           YieldedBefore(p, i)
    /\ Drained => Yielded = systems

\* A drained visitor over three systems, one of them declaring nothing.
C6_Witness ==
  /\ Drained /\ Len(visited) = 3
  /\ \E s \in Yielded :
       s.reads_before_write \cup s.writes \cup s.reads_after_write = {}
  /\ system_topological_graph.deps # {}

DeclaredOrWriters(x, y) ==
  \/ DeclaredBefore(x, y)
  \/ x # y /\ \E r \in Resources : r \in x.writes /\ r \in y.writes

RegistryData ==
  <<systems, resources_info, system_topological_graph, systems_changed>>

\* C9: the first systems() call on the fresh registry rebuilds; a systems()
\* call that directly follows a returned systems() call rebuilds nothing and
\* leaves the system map, the resource-info cache, the graph and the dirty
\* flag as they are; and the visitor of each call, drained, has yielded every
\* registered system (so at least one whenever one is registered),
\* whatever an earlier visitor yielded.
C9_SecondCallReusesGraph ==
  /\ [][calls = 0 /\ calls' = 1 /\ last_call'.op = "systems"
        => last_call'.rebuilt]_vars
  /\ [](Drained => Yielded = systems /\ (systems # {} => visited # << >>))
  /\ [][(/\ last_call.op = "systems" /\ last_call.result = "ok"
         /\ calls' = calls + 1 /\ last_call'.op = "systems")
        => (/\ last_call'.result = "ok"
            /\ ~last_call'.rebuilt
            /\ visited' = << >>
            /\ RegistryData' = RegistryData)]_vars

\* The second of two consecutive calls has been drained.
C9_Witness ==
  /\ Drained /\ systems # {} /\ calls = 2
  /\ last_call = Call("systems", FALSE, "ok", {})

\* ------------------------------------------------------------------------
\* Properties of the resource store
\* ------------------------------------------------------------------------

\* C2: for each resource, the references callers hold are either shared ones
\* only or a single exclusive one; a fetch_mut while a reference is held, or
\* a fetch while an exclusive one is held, never hands out another reference.
C2_BorrowExclusive ==
  \A id \in ResourceIds :
    LET exclusive == Held(id, "exclusive") + Held(id, "insert") IN
    exclusive = 0 \/ (exclusive = 1 /\ Held(id, "shared") = 0)

\* C10: the store never holds two entries for one resource id, and an insert
\* of a type that is present calls no factory, leaves the entry as it is and
\* returns a reference that shows the entry's current value.
C10_InsertIdempotent ==
  /\ [](\A id \in ResourceIds :
          Cardinality({e \in resources : e.id = id}) <= 1)
  /\ [][\A id \in ResourceIds :
          (/\ Held(id, "insert") = 0 /\ Held(id, "insert")' = 1
           /\ contains(resources, id))
          => (/\ world_ret' = WorldRet("insert", id, "ok", FALSE,
                                       ValueOf(resources, id))
              /\ Get(resources, id) \in resources'
              /\ Cardinality(resources') = Cardinality(resources))]_vars

\* X was inserted with 0, set to 1 through a reference, and inserted again
\* with a factory for 0: the reference shows 1 and no factory ran.
C10_Witness ==
  /\ world_ret = WorldRet("insert", "X", "ok", FALSE, 1)
  /\ written = [id |-> "X", value |-> 1]
  /\ Held("X", "insert") = 1
  /\ ValueOf(resources, "X") = 1

\* ------------------------------------------------------------------------
\* Properties of the registry under threads
\* ------------------------------------------------------------------------

Holding(t) == pc[t] = "holding"

InsideWrite(t) ==
  pc[t] \in {"add_flag", "add_insert", "refresh", "refresh_info",
             "refresh_readers", "refresh_writers", "sys_drop_write"}

\* C8: while a thread holds the guard systems() returned, no thread is inside
\* add_system_infos or refresh, the resource-info cache and the graph are a
\* finished rebuild of one registration set, and no step changes the system
\* map, the cache, the graph or the dirty flag.
C8_GuardSeesStableSnapshot ==
  /\ [](\A t \in Threads :
          Holding(t) =>
            /\ \A u \in Threads : ~InsideWrite(u)
            /\ resources_info = BuildResourcesInfo(built_from)
            /\ \E vorder \in Perms(built_from), sorder \in Perms(built_from) :
                 system_topological_graph
                   = Refresh(built_from, vorder, sorder).graph)
  /\ [][(\E t \in Threads : Holding(t) /\ Holding(t)')
        => RegistryData' = RegistryData]_vars

\* One thread holds the guard over a graph of two writers while the other
\* waits for the write lock with a registration.
C8_Witness ==
  /\ Holding(1)
  /\ pc[2] = "add_write"
  /\ Cardinality(system_topological_graph.items) = 2
  /\ system_topological_graph.deps # {}

\* ------------------------------------------------------------------------
\* Properties of the resource store: errors and values
\* ------------------------------------------------------------------------

FetchOps == {"try_fetch", "try_fetch_mut", "fetch", "fetch_mut"}

\* A step that is a call of one of the four fetch operations: it reports a
\* result or hands out a reference.
FetchStep ==
  /\ world_ret'.op \in FetchOps
  /\ world_ret' # world_ret \/ HandleCount' > HandleCount

\* C11: a fetch of a type that is not in the store gives the Fetch error
\* naming that type, as Err from try_fetch / try_fetch_mut and as a panic from
\* fetch / fetch_mut, and leaves the store as it was; a fetch of a type that is
\* in the store succeeds, whichever of the four it is.
C11_AbsentIsFetchError ==
  [][FetchStep =>
       IF contains(resources, world_ret'.id)
         THEN world_ret'.result = "ok" /\ world_ret'.error = NoError
         ELSE /\ world_ret'.result
                   = (IF world_ret'.op \in {"fetch", "fetch_mut"}
                        THEN "panic" ELSE "err")
              /\ world_ret'.error
                   = [kind |-> "Fetch", resource_type_name |-> world_ret'.id]
              /\ resources' = resources
              /\ handles' = handles]_vars

\* X is in the store and fetch_mut of Y, never inserted, has just panicked
\* with the Fetch error naming Y.
C11_Witness ==
  /\ contains(resources, "X") /\ ~contains(resources, "Y")
  /\ world_ret.op = "fetch_mut" /\ world_ret.id = "Y"
  /\ world_ret.result = "panic"
  /\ world_ret.error = [kind |-> "Fetch", resource_type_name |-> "Y"]

\* insert(|| v) of a type that is not in the store.
InsertedNew(id, v) ==
  /\ ~contains(resources, id)
  /\ world_ret'.op = "insert" /\ world_ret'.id = id
  /\ Insert(id, v)

\* A step that assigns v to the resource id through a reference.
Wrote(id, v) ==
  /\ written' = [id |-> id, value |-> v]
  /\ \E kind \in HandleKinds : WriteThrough(id, kind, v)

\* The store holds the value last written through a reference, for the
\* types in ids.
LastWriteStored(ids) ==
  written.id \in ids => ValueOf(resources, written.id) = written.value

\* Of every step, for the types in ids: a fetch that succeeds returns the
\* stored value, insert of a new type stores the factory's value, an
\* assignment through a reference stores its value and touches no other
\* resource, and nothing else changes a stored value.
ReadsSeeWrites(ids) ==
  /\ FetchStep /\ world_ret'.result = "ok" /\ world_ret'.id \in ids
       => world_ret'.value = ValueOf(resources, world_ret'.id)
  /\ \A id \in ids, v \in Values :
       /\ InsertedNew(id, v) => ValueOf(resources', id) = v
       /\ Wrote(id, v) =>
            /\ ValueOf(resources', id) = v
            /\ \A o \in ResourceIds \ {id} :
                 ValueOf(resources', o) = ValueOf(resources, o)
  /\ \A id \in ids :
       ValueOf(resources', id) # ValueOf(resources, id)
         => \E v \in Values : InsertedNew(id, v) \/ Wrote(id, v)

\* C12 as stated, for every resource type: insert(|| v) of a new type stores
\* v, a fetch returns the stored value, and the value last written through a
\* reference stays until the next write to that type.
C12_ReadYourWrites ==
  /\ []LastWriteStored(ResourceIds)
  /\ [][ReadsSeeWrites(ResourceIds)]_vars

\* C12, amended: the same for every resource type but the change-notification
\* channel, into which insert itself pushes.
C12_ReadYourWritesButChannel ==
  /\ []LastWriteStored(ResourceIds \ {ChannelId})
  /\ [][ReadsSeeWrites(ResourceIds \ {ChannelId})]_vars

\* X was set to 1 through a reference and a later fetch of X returned 1, with
\* Y in the store as well.
C12_Witness ==
  /\ written = [id |-> "X", value |-> 1]
  /\ world_ret.op = "fetch" /\ world_ret.id = "X"
  /\ world_ret.result = "ok" /\ world_ret.value = 1
  /\ contains(resources, "Y")

\* ------------------------------------------------------------------------
\* Properties of the join
\* ------------------------------------------------------------------------

\* A tuple of sources, none of them a tuple itself.
IsFlat(j) ==
  j.kind = "tuple" /\ \A i \in 1..Len(j.parts) : j.parts[i].kind = "leaf"

\* The ids set in the bitset of every source of j.
InAll(j) == {id \in Ids : \A s \in Leaves(j) : id \in bitsets[s]}

IdsOf(items) == [i \in 1..Len(items) |-> items[i].id]

StrictlyAscending(seq) ==
  \A i, j \in 1..Len(seq) : i < j => seq[i] < seq[j]

\* C13: the iterator of a tuple of N sources yields ids in ascending order,
\* each once, only ids set in all N bitsets and, once it has ended, all of
\* them; each id comes with the N-tuple of the sources' components at that id,
\* in the order of the sources.
C13_JoinYieldsIntersection ==
  \A k \in 1..Len(iters) :
    IsFlat(joined[k]) =>
      /\ StrictlyAscending(IdsOf(iters[k].items))
      /\ Range(IdsOf(iters[k].items)) \subseteq InAll(joined[k])
      /\ iters[k].state = "done" =>
           Range(IdsOf(iters[k].items)) = InAll(joined[k])
      /\ \A i \in 1..Len(iters[k].items) :
           LET item == iters[k].items[i] IN
           /\ item.component.kind = "tuple"
           /\ Len(item.component.parts) = Len(joined[k].parts)
           /\ \A n \in 1..Len(joined[k].parts) :
                item.component.parts[n]
                  = [kind |-> "component", source |-> joined[k].parts[n].source,
                     id |-> item.id, parts |-> << >>]

\* The join of sources over {0, 1, 2} and {1, 2}, second source first, has
\* ended after yielding 1 and then 2.
C13_Witness ==
  /\ Len(iters) = 2 /\ iters[1].state = "done"
  /\ joined[1] = Tuple(<<Leaf(2), Leaf(1)>>)
  /\ bitsets[1] = {0, 1, 2} /\ bitsets[2] = {1, 2}
  /\ IdsOf(iters[1].items) = <<1, 2>>

\* C14: get is called on a source only with ids set in that source's bitset,
\* in tuples and in nested tuples, whatever the bitsets.
C14_GetOnlyOnPresentIds ==
  /\ ~join_ub
  /\ \A a \in accessed : a[2] \in bitsets[a[1]]

\* A nested tuple has been iterated to its end: get was called, and an id set
\* in one of its sources was passed over.
C14_Witness ==
  /\ Len(iters) = 2 /\ iters[1].state = "done"
  /\ ~IsFlat(joined[1])
  /\ accessed # {}
  /\ \E s \in Leaves(joined[1]) : \E id \in bitsets[s] : <<s, id>> \notin accessed

\* The components of the sources inside a yielded tuple, nesting and order
\* put aside.
RECURSIVE Flatten(_)
Flatten(c) ==
  IF c.kind = "tuple" THEN UNION {Flatten(c.parts[i]) : i \in 1..Len(c.parts)}
  ELSE {c}

\* C15: a join of the sources in any order and nesting yields what the tuple
\* of the same sources in ascending order yields: the same ids in the same
\* ascending order, each with the same components of the sources.
C15_JoinOrderAndNestingIrrelevant ==
  (Len(iters) = 2 /\ iters[2].state = "done") =>
    /\ Len(iters[1].items) = Len(iters[2].items)
    /\ StrictlyAscending(IdsOf(iters[1].items))
    /\ \A i \in 1..Len(iters[2].items) :
         /\ iters[1].items[i].id = iters[2].items[i].id
         /\ Flatten(iters[1].items[i].component)
              = Flatten(iters[2].items[i].component)

\* (3, (1, 2)) and (1, 2, 3) have both been iterated to their ends and both
\* yielded two ids.
C15_Witness ==
  /\ Len(iters) = 2 /\ iters[2].state = "done"
  /\ joined[1] = Tuple(<<Leaf(3), Tuple(<<Leaf(1), Leaf(2)>>)>>)
  /\ Len(iters[1].items) = 2 /\ Len(iters[2].items) = 2

\* ------------------------------------------------------------------------
\* Properties of the writer/writer pass
\* ------------------------------------------------------------------------

\* No item of the graph is reached from itself along one edge or more.
Acyclic(deps) == \A e \in deps : ~Reaches(deps, e[2], e[1])

Rebuilt == calls > 0 /\ ~systems_changed

\* Two registered systems that write one resource.
WritersOfOne(x, y) ==
  x # y /\ \E r \in Resources : r \in x.writes /\ r \in y.writes

\* C16: when the edges of the reader/writer rules are acyclic the rebuild
\* does not fail, and the graph it leaves, writer/writer edges included,
\* holds those edges and is acyclic.
C16_WriterPassKeepsAcyclic ==
  Rebuilt /\ ~DeclaredCyclic(systems) =>
    /\ ~poisoned
    /\ system_topological_graph.cycle = {}
    /\ DeclaredEdges(systems) \subseteq system_topological_graph.deps
    /\ Acyclic(system_topological_graph.deps)

\* A, B and C all write R1 and B also reads R2 after A writes it: the rebuilt
\* graph has writer/writer edges beside the edge from A to B.
C16_Witness ==
  /\ Rebuilt /\ ~poisoned
  /\ Cardinality(systems) = 3
  /\ \A x \in systems : "R1" \in x.writes
  /\ DeclaredEdges(systems) # {}
  /\ system_topological_graph.deps \ DeclaredEdges(systems) # {}

\* C17: after a rebuild two distinct writers of one resource are joined by a
\* path in exactly one direction, and the visitor never gives them the same
\* wavefront index.
C17_WritersOfOneResourceOrdered ==
  /\ Rebuilt /\ ~poisoned =>
       \A x, y \in systems :
         WritersOfOne(x, y) =>
           Reaches(system_topological_graph.deps, x, y)
             # Reaches(system_topological_graph.deps, y, x)
  /\ guard =>
       \A i, j \in 1..Len(visited) :
         WritersOfOne(visited[i].system, visited[j].system)
           => visited[i].flag # visited[j].flag

\* Two writers of R1 with no reader between them have been yielded, with
\* wavefront indices 0 and 1.
C17_Witness ==
  /\ guard /\ Len(visited) = 2
  /\ WritersOfOne(visited[1].system, visited[2].system)
  /\ DeclaredEdges(systems) = {}
  /\ visited[1].flag = 0 /\ visited[2].flag = 1

\* C18: the writer/writer pass asks for a dependency only between two
\* different writers of a resource, never of a writer on itself.
C18_WriterPassPairsDistinct ==
  Rebuilt =>
    \A request \in WriterWriterRequests(resources_info, systems) :
      request[1] # request[2]

\* ------------------------------------------------------------------------
\* Properties of the rebuild
\* ------------------------------------------------------------------------

\* The resources some registered system declares in some role.
DeclaredResources(S) ==
  UNION {s.reads_before_write \cup s.writes \cup s.reads_after_write : s \in S}

\* C19: a call that rebuilds leaves the dirty flag false; after a rebuild that
\* did not fail the cache has an entry for exactly the resources the
\* registered systems declare, each role set holds exactly the registered
\* systems declaring the resource in that role, and the graph is one that a
\* rebuild of a registry that never built anything gives for the same
\* systems, whatever the cache and the graph held before.
C19_RebuildFromScratch ==
  /\ [](Rebuilt /\ ~poisoned =>
          /\ DOMAIN resources_info = DeclaredResources(systems)
          /\ \A r \in DOMAIN resources_info :
               /\ resources_info[r].read_before_write_systems
                    = {s \in systems : r \in s.reads_before_write}
               /\ resources_info[r].write_systems
                    = {s \in systems : r \in s.writes}
               /\ resources_info[r].read_after_write_systems
                    = {s \in systems : r \in s.reads_after_write}
          /\ \E vorder \in Perms(systems), sorder \in Perms(systems) :
               system_topological_graph = Refresh(systems, vorder, sorder).graph)
  /\ [][last_call'.rebuilt /\ calls' # calls => ~systems_changed']_vars

\* A rebuild has cleared a cache with an entry for R2 and a graph with an
\* edge, and left a cache without R2 and a graph without edges.
C19_Witness ==
  /\ Rebuilt /\ guard /\ last_call.rebuilt
  /\ "R2" \in DOMAIN cleared.resources_info
  /\ "R2" \notin DOMAIN resources_info
  /\ cleared.graph.deps # {}
  /\ system_topological_graph.deps = {}

\* ------------------------------------------------------------------------
\* Properties of systems() under concurrent registration
\* ------------------------------------------------------------------------

\* C20: while a thread holds the guard systems() returned, the dirty flag is
\* false and the graph is the one built from the systems registered now, so
\* no registration that completed before the guard was taken is missing.
C20_ReturnedGraphIsCurrent ==
  \A t \in Threads :
    Holding(t) =>
      /\ ~systems_changed
      /\ built_from = systems
      /\ system_topological_graph.items = systems

\* ------------------------------------------------------------------------
\* Properties of the resource store: change events
\* ------------------------------------------------------------------------

\* A step that is a call of insert for the type id.
InsertStep(id) == Held(id, "insert") = 0 /\ Held(id, "insert")' = 1

InFlight(id) ==
  Cardinality({job \in loading_pool : job.id = id})
    + Cardinality({i \in DOMAIN completed_assets : completed_assets[i].id = id})

IdsInUse == {path_to_ids[p] : p \in DOMAIN path_to_ids}

\* C22: the first load of a path takes a fresh id and schedules exactly one
\* job, every later load of it returns the same id and schedules nothing,
\* distinct paths have distinct ids, at most one completion per id reaches
\* update, and update's assertion never fails, under every interleaving of
\* load, the workers and update.
C22_LoadIdempotent ==
  /\ [](/\ \A p, q \in DOMAIN path_to_ids :
              p # q => path_to_ids[p] # path_to_ids[q]
        /\ \A p \in Paths :
              scheduled[p] = IF p \in DOMAIN path_to_ids THEN 1 ELSE 0
        /\ \A id \in AssetIds :
              /\ InFlight(id) + received[id] <= 1
              /\ id \notin IdsInUse => InFlight(id) + received[id] = 0
        /\ asset_ret.result # "assert failed")
  /\ [][\A path \in Paths, T \in AssetTypes :
          Load(path, T) =>
            /\ asset_ret' = AssetRet("load", AssetHandle(path_to_ids'[path], T),
                                     "handle")
            /\ IF path \in DOMAIN path_to_ids
                 THEN /\ path_to_ids' = path_to_ids
                      /\ loading_pool' = loading_pool
                      /\ scheduled' = scheduled
                 ELSE /\ path_to_ids'[path] \notin IdsInUse
                      /\ loading_pool \subseteq loading_pool'
                      /\ Cardinality(loading_pool' \ loading_pool) = 1
                      /\ \A job \in loading_pool' \ loading_pool :
                           job.id = path_to_ids'[path] /\ job.path = path]_vars

\* Both paths loaded, the first one's asset received, and a later load of
\* it has just returned its id again.
C22_Witness ==
  /\ DOMAIN path_to_ids = Paths
  /\ 0 \in DOMAIN id_to_assets
  /\ received[0] = 1
  /\ asset_ret = AssetRet("load", AssetHandle(0, "T2"), "handle")
  /\ id_to_assets[0].type = "T1"

\* ------------------------------------------------------------------------
\* AssetLoader availability
\* ------------------------------------------------------------------------

\* The answer get owes a handle: the asset once update has stored its id.
Available(id) == id \in DOMAIN id_to_assets

\* C23: get returns nothing until update has received the successful
\* completion of the handle's id and the asset on every get after that;
\* assets are never removed; an errored completion is logged and skipped
\* with the drain going on, its id never becomes available and no later
\* load schedules it again.
C23_AvailableAfterUpdate ==
  /\ [](\A id \in AssetIds :
          /\ Available(id) => received[id] = 1 /\ id \notin logged
          /\ id \in logged => InFlight(id) = 0 /\ ~Available(id))
  /\ [][\A id \in AssetIds : Available(id) => Available(id)']_vars
  /\ [][\A handle \in asset_handles :
          AssetGet(handle) =>
            asset_ret'.result = IF Available(handle.id) THEN "some" ELSE "none"]_vars
  /\ [][(UpdateRecv /\ logged' # logged) =>
          asset_pc' = "update" /\ id_to_assets' = id_to_assets]_vars

\* ------------------------------------------------------------------------
\* Prefab instantiation keeps one injective local-to-world map
\* ------------------------------------------------------------------------

\* The build_link calls that allocated, from call i on.
FreshFrom(i) == {j \in i..Len(link_log) : link_log[j].fresh}

\* C24: within one attach build_link gives one local entity the same
\* world entity on every call, allocates only on the first encounter of a
\* local entity, never maps two local entities to one world entity and
\* never takes its unreachable branch; the references inside components
\* go through the same map, so a reference to local entity e and the
\* components owned by e carry one world entity; world entities are
\* allocated in the order of first encounter.
C24_LinkMapInjective ==
  /\ \A p, q \in link : p[1] = q[1] <=> p[2] = q[2]
  /\ link = {<<link_log[i].local, link_log[i].entity>> : i \in DOMAIN link_log}
  /\ \A i \in DOMAIN link_log :
       /\ link_log[i].ok
       /\ link_log[i].fresh
            <=> ~\E j \in 1..(i - 1) : link_log[j].local = link_log[i].local
       /\ link_log[i].fresh
            => link_log[i].entity = entities.next - Cardinality(FreshFrom(i))
  /\ \A c \in components_in_world :
       /\ <<c.local, c.entity>> \in link
       /\ Len(c.refs) = Len(c.local_refs)
       /\ prefab.components[c.storage].with_refs
            => \A k \in DOMAIN c.refs : <<c.local_refs[k], c.refs[k]>> \in link
  /\ \A c, d \in components_in_world :
       prefab.components[c.storage].with_refs
         => \A k \in DOMAIN c.refs :
              c.local_refs[k] = d.local => c.refs[k] = d.entity
  /\ \A pl \in prefab_links :
       pl.link = link /\ <<prefab.root_entity, pl.entity>> \in link

\* The attach of tests::convert_to_world has finished: 10, 15 and 7 were
\* met in this order and got 0, 1 and 2, and the references hold what the
\* test asserts.
C24_Witness ==
  /\ prefab = TestPrefab
  /\ attach_pc = Len(prefab.components) + 2
  /\ link = {<<10, 0>>, <<15, 1>>, <<7, 2>>}
  /\ Len(link_log) = 7
  /\ \E c \in components_in_world : c.storage = 2 /\ c.refs = <<1>>
  /\ \E c \in components_in_world :
       c.storage = 3 /\ c.refs = <<2, 0>> /\ c.entity = 1
  /\ prefab_links = {[entity |-> 1, link |-> link]}

====
